---- MODULE Spec2Model ----
(***************************************************************************)
(* Loan ledger canister (src/dfinity_js_backend/src/index.ts).             *)
(*                                                                         *)
(* State: the three stable maps of the canister, the canister clock        *)
(* (ic.time()), the supply of generated uuids and the reply of the last    *)
(* call.  One action per canister method; a call runs to completion on     *)
(* one value of ic.time().  A call that throws (BigInt division by zero,   *)
(* a negative value stored into a nat64 field) traps: the canister state   *)
(* is left as it was before the call and the caller gets no Result.        *)
(*                                                                         *)
(* Keys.  loansStorage is keyed by generated uuids, loanRequestsStorage    *)
(* by the caller's principal.  Principals are modelled as negative         *)
(* integers and uuids as positive integers, so a generated uuid never      *)
(* equals a principal.  The text argument of acceptLoanRequest ranges      *)
(* over both: get(loanRequestId) finds an entry exactly when the argument  *)
(* designates a key under which a request was inserted.                    *)
(***************************************************************************)
EXTENDS Integers, Sequences, FiniteSets, TLC

\* ---- bounds of the model ------------------------------------------------
MaxPrincipals == 2
MaxIds == 3
MaxAmount == 1
MaxDuration == 1
MaxTime == 1
MaxStoredAmount == 4
MaxBalance == 2
MaxYears == 2
MaxLedgerIds == 2
MaxInterestAmount == 3
MaxRateSteps == 3

\* ---- program constants --------------------------------------------------
SecondsPerYear == 365 * 24 * 60 * 60
RateBasis == 100

\* ---- input domains ------------------------------------------------------
Principals == (0 - MaxPrincipals) .. (0 - 1)
Uuids == 1 .. MaxIds
Texts == Principals \cup Uuids
Amounts == 0 .. MaxAmount
Rates == {RateBasis}
Durations == 0 .. MaxDuration
Names == {"", "alice"}
Times == (0 .. MaxTime) \cup {SecondsPerYear}

\* terms and instants for the interest computation: rates in steps of half the
\* rate basis, instants that are whole years
InterestRates == {(k * RateBasis) \div 2 : k \in 0 .. MaxRateSteps}
InterestTimes == Times \cup {k * SecondsPerYear : k \in 1 .. MaxYears}
InterestRequest ==
    [amount : 0 .. MaxInterestAmount, interestRate : InterestRates, duration : Durations]

\* Record type for LoanRequest
LoanRequest == [amount : Amounts, interestRate : Rates, duration : Durations]

VARIABLES loansStorage, loanRequestsStorage, userProfiles, now, nextUuid, reply

vars == <<loansStorage, loanRequestsStorage, userProfiles, now, nextUuid, reply>>

\* ---- StableBTreeMap -----------------------------------------------------
EmptyMap == [k \in {} |-> 0]

Insert(map, key, value) ==
    [k \in (DOMAIN map) \cup {key} |-> IF k = key THEN value ELSE map[k]]

RECURSIVE SortedKeys(_)
SortedKeys(S) ==
    IF S = {} THEN <<>>
    ELSE LET m == CHOOSE x \in S : \A y \in S : x <= y
         IN <<m>> \o SortedKeys(S \ {m})

\* ---- Result(.., Message) ------------------------------------------------
Ok(v) == [tag |-> "Ok", val |-> v]
Err(kind) == [tag |-> "Err", val |-> kind]
Trap == [tag |-> "Trap", val |-> "trap"]

Reply(op, ret) == [op |-> op, ret |-> ret]

\* ---- helper functions of the canister ----------------------------------
calculateAccumulatedInterest(loan) ==
    (((loan.amount * loan.interestRate) \div RateBasis) * (now - loan.creationDate))
        \div SecondsPerYear

shouldAutomateRepayment(loan) == now >= loan.dueDate

\* defined only when loan.duration # 0 (BigInt division by zero throws)
calculateRepaymentAmount(loan) ==
    calculateAccumulatedInterest(loan) + (loan.amount \div loan.duration)

\* mutant: the due date computed without the clock
calculateDueDateNoClock(duration) == duration

calculateDueDate(duration) == now + duration

loanIsFullyRepaid(loan) == FALSE

\* mutant: a loan past its due date counts as defaulted
loanIsDefaultedPastDue(loan) == now > loan.dueDate

loanIsDefaulted(loan) == FALSE

\* ---- canister methods ---------------------------------------------------
Init ==
    /\ loansStorage = EmptyMap
    /\ loanRequestsStorage = EmptyMap
    /\ userProfiles = EmptyMap
    /\ now = 0
    /\ nextUuid = 1
    /\ reply = Reply("init", Ok(0))

Tick ==
    /\ \E t \in Times : t > now /\ now' = t
    /\ UNCHANGED <<loansStorage, loanRequestsStorage, userProfiles, nextUuid, reply>>

\* the Opt value insert returns: the entry the key held before, if any
Previous(map, key) ==
    IF key \in DOMAIN map THEN [tag |-> "Some", val |-> map[key]]
    ELSE [tag |-> "None", val |-> "none"]

\* mutant: a profile that keeps the balance the caller already had
userProfileKeepingBalance(caller, name) ==
    [principal |-> caller, name |-> name,
     balance |-> IF caller \in DOMAIN userProfiles THEN userProfiles[caller].balance ELSE 0]

\* the profile record built by registerUser
userProfile(caller, name) ==
    [principal |-> caller, name |-> name, balance |-> 0]

\* registerUser: update([text], Result(text, Message))
\* The call record keeps, besides the Result, the value insert returned
\* (the handler discards it).
registerUser(caller, name) ==
    /\ userProfiles' = Insert(userProfiles, caller, userProfile(caller, name))
    /\ reply' = [op |-> "registerUser", ret |-> Ok("registered"),
                 previous |-> Previous(userProfiles, caller)]
    /\ UNCHANGED <<loansStorage, loanRequestsStorage, now, nextUuid>>

\* mutant: the balance replaced by the amount instead of increased by it
creditedUserReplacing(user, amount) == [user EXCEPT !.balance = amount]

\* the profile record written by saveFunds
creditedUser(user, amount) == [user EXCEPT !.balance = user.balance + amount]

\* saveFunds: update([nat64], Result(text, Message))
saveFunds(caller, amount) ==
    IF caller \notin DOMAIN userProfiles
    THEN /\ reply' = Reply("saveFunds", Err("NotFound"))
         /\ UNCHANGED <<loansStorage, loanRequestsStorage, userProfiles, now, nextUuid>>
    ELSE LET user == userProfiles[caller]
         IN /\ user.balance + amount <= MaxBalance
            /\ userProfiles' = Insert(userProfiles, user.principal,
                                      creditedUser(user, amount))
            /\ reply' = Reply("saveFunds", Ok("saved"))
            /\ UNCHANGED <<loansStorage, loanRequestsStorage, now, nextUuid>>

\* mutant: the request is stored under the generated request id
createLoanRequestUnderId(caller, request) ==
    /\ nextUuid <= MaxIds
    /\ LET loanRequestId == nextUuid
       IN /\ nextUuid' = nextUuid + 1
          /\ loanRequestsStorage' = Insert(loanRequestsStorage, loanRequestId, request)
          /\ reply' = Reply("createLoanRequest", Ok(loanRequestId))
    /\ UNCHANGED <<loansStorage, userProfiles, now>>

\* createLoanRequest: update([LoanRequest], Result(text, Message))
createLoanRequest(caller, request) ==
    /\ nextUuid <= MaxIds
    /\ LET loanRequestId == nextUuid
       IN /\ nextUuid' = nextUuid + 1
          /\ loanRequestsStorage' = Insert(loanRequestsStorage, caller, request)
          /\ reply' = Reply("createLoanRequest", Ok(loanRequestId))
    /\ UNCHANGED <<loansStorage, userProfiles, now>>

\* mutant: the new loan's due date computed without the clock
acceptedLoanNoClock(id, request, caller) ==
    [id |-> id,
     amount |-> request.amount,
     interestRate |-> request.interestRate,
     duration |-> request.duration,
     borrower |-> caller,
     lender |-> "None",
     status |-> "Active",
     creationDate |-> now,
     dueDate |-> request.duration]

\* the loan record built by acceptLoanRequest
acceptedLoan(id, request, caller) ==
    [id |-> id,
     amount |-> request.amount,
     interestRate |-> request.interestRate,
     duration |-> request.duration,
     borrower |-> caller,
     lender |-> "None",
     status |-> "Active",
     creationDate |-> now,
     dueDate |-> now + request.duration]

\* mutant: the accepted request is removed from the request store
acceptLoanRequestConsuming(caller, loanRequestId) ==
    IF loanRequestId \notin DOMAIN loanRequestsStorage
    THEN /\ reply' = Reply("acceptLoanRequest", Err("NotFound"))
         /\ UNCHANGED <<loansStorage, loanRequestsStorage, userProfiles, now, nextUuid>>
    ELSE /\ nextUuid <= MaxIds
         /\ LET request == loanRequestsStorage[loanRequestId]
                loan == acceptedLoan(nextUuid, request, caller)
            IN /\ nextUuid' = nextUuid + 1
               /\ loansStorage' = Insert(loansStorage, loan.id, loan)
               /\ reply' = Reply("acceptLoanRequest", Ok(loan))
         /\ loanRequestsStorage' =
               [k \in DOMAIN loanRequestsStorage \ {loanRequestId} |-> loanRequestsStorage[k]]
         /\ UNCHANGED <<userProfiles, now>>

\* acceptLoanRequest: update([text], Result(Loan, Message))
acceptLoanRequest(caller, loanRequestId) ==
    IF loanRequestId \notin DOMAIN loanRequestsStorage
    THEN /\ reply' = Reply("acceptLoanRequest", Err("NotFound"))
         /\ UNCHANGED <<loansStorage, loanRequestsStorage, userProfiles, now, nextUuid>>
    ELSE /\ nextUuid <= MaxIds
         /\ LET request == loanRequestsStorage[loanRequestId]
                loan == acceptedLoan(nextUuid, request, caller)
            IN /\ nextUuid' = nextUuid + 1
               /\ loansStorage' = Insert(loansStorage, loan.id, loan)
               /\ reply' = Reply("acceptLoanRequest", Ok(loan))
         /\ UNCHANGED <<loanRequestsStorage, userProfiles, now>>

\* makeRepayment: update([text, nat64], Result(text, Message))
makeRepayment(loanId, repaymentAmount) ==
    IF loanId \notin DOMAIN loansStorage
    THEN /\ reply' = Reply("makeRepayment", Err("NotFound"))
         /\ UNCHANGED <<loansStorage, loanRequestsStorage, userProfiles, now, nextUuid>>
    ELSE LET loan == loansStorage[loanId]
         IN /\ IF loanIsFullyRepaid(loan)
               THEN loansStorage' = Insert(loansStorage, loan.id,
                                           [loan EXCEPT !.status = "Completed"])
               ELSE UNCHANGED loansStorage
            /\ reply' = Reply("makeRepayment", Ok("successful"))
            /\ UNCHANGED <<loanRequestsStorage, userProfiles, now, nextUuid>>

\* getLoanStatus: query([text], Result(LoanStatus, Message))
getLoanStatus(loanId) ==
    /\ reply' = Reply("getLoanStatus", IF loanId \notin DOMAIN loansStorage
                      THEN Err("NotFound")
                      ELSE Ok(loansStorage[loanId].status))
    /\ UNCHANGED <<loansStorage, loanRequestsStorage, userProfiles, now, nextUuid>>

\* checkForDefault: update([], Vec(text))
checkForDefault ==
    LET defaultedLoans == {id \in DOMAIN loansStorage : loanIsDefaulted(loansStorage[id])}
    IN /\ loansStorage' = [id \in DOMAIN loansStorage |->
                              IF id \in defaultedLoans
                              THEN [loansStorage[id] EXCEPT !.status = "Defaulted"]
                              ELSE loansStorage[id]]
       /\ reply' = Reply("checkForDefault", Ok(SortedKeys(defaultedLoans)))
       /\ UNCHANGED <<loanRequestsStorage, userProfiles, now, nextUuid>>

\* the loan record written by modifyLoanTerms
modifiedLoan(loan, newTerms) ==
    [loan EXCEPT !.amount = newTerms.amount,
                 !.interestRate = newTerms.interestRate,
                 !.duration = newTerms.duration,
                 !.dueDate = calculateDueDate(newTerms.duration)]

\* modifyLoanTerms: update([text, LoanRequest], Result(Loan, Message))
modifyLoanTerms(loanId, newTerms) ==
    IF loanId \notin DOMAIN loansStorage
    THEN /\ reply' = Reply("modifyLoanTerms", Err("NotFound"))
         /\ UNCHANGED <<loansStorage, loanRequestsStorage, userProfiles, now, nextUuid>>
    ELSE IF loansStorage[loanId].status # "Active"
    THEN /\ reply' = Reply("modifyLoanTerms", Err("InvalidPayload"))
         /\ UNCHANGED <<loansStorage, loanRequestsStorage, userProfiles, now, nextUuid>>
    ELSE LET loan == modifiedLoan(loansStorage[loanId], newTerms)
         IN /\ loansStorage' = Insert(loansStorage, loan.id, loan)
            /\ reply' = Reply("modifyLoanTerms", Ok(loan))
            /\ UNCHANGED <<loanRequestsStorage, userProfiles, now, nextUuid>>

\* getUserLoanHistory: query([Principal], Vec(Loan))
getUserLoanHistory(userPrincipal) ==
    LET userLoans == {id \in DOMAIN loansStorage :
                         \/ loansStorage[id].borrower = userPrincipal
                         \/ (loansStorage[id].lender # "None"
                             /\ loansStorage[id].lender = userPrincipal)}
    IN /\ reply' = Reply("getUserLoanHistory", Ok(SortedKeys(userLoans)))
       /\ UNCHANGED <<loansStorage, loanRequestsStorage, userProfiles, now, nextUuid>>

\* mutant: the amount replaced by the interest instead of increased by it
accruedLoanInterestOnly(loan) ==
    [loan EXCEPT !.amount = calculateAccumulatedInterest(loan)]

\* the loan record written by accumulateInterest
accruedLoan(loan) ==
    [loan EXCEPT !.amount = loan.amount + calculateAccumulatedInterest(loan)]

\* accumulateInterest: update([], Vec(text))
accumulateInterest ==
    LET activeLoans == {id \in DOMAIN loansStorage : loansStorage[id].status = "Active"}
    IN /\ \A id \in activeLoans : accruedLoan(loansStorage[id]).amount <= MaxStoredAmount
       /\ loansStorage' = [id \in DOMAIN loansStorage |->
                              IF id \in activeLoans
                              THEN accruedLoan(loansStorage[id])
                              ELSE loansStorage[id]]
       /\ reply' = Reply("accumulateInterest", Ok(SortedKeys(activeLoans)))
       /\ UNCHANGED <<loanRequestsStorage, userProfiles, now, nextUuid>>

\* the loan record written by automateLoanRepayment
repaidLoan(loan) ==
    [loan EXCEPT !.amount = loan.amount - calculateRepaymentAmount(loan)]

\* mutant: the deducted amount is also taken from the borrower's balance
automateLoanRepaymentSettling ==
    LET loansForRepayment ==
            {id \in DOMAIN loansStorage : shouldAutomateRepayment(loansStorage[id])}
        throws == \E id \in loansForRepayment :
                      \/ loansStorage[id].duration = 0
                      \/ repaidLoan(loansStorage[id]).amount < 0
    IN IF throws
       THEN /\ reply' = Reply("automateLoanRepayment", Trap)
            /\ UNCHANGED <<loansStorage, loanRequestsStorage, userProfiles, now, nextUuid>>
       ELSE /\ loansStorage' = [id \in DOMAIN loansStorage |->
                                   IF id \in loansForRepayment
                                   THEN repaidLoan(loansStorage[id])
                                   ELSE loansStorage[id]]
            /\ userProfiles' = [p \in DOMAIN userProfiles |->
                                   IF \E id \in loansForRepayment :
                                         /\ loansStorage[id].borrower = p
                                         /\ calculateRepaymentAmount(loansStorage[id]) > 0
                                   THEN [userProfiles[p] EXCEPT !.balance = 0]
                                   ELSE userProfiles[p]]
            /\ reply' = Reply("automateLoanRepayment", Ok(SortedKeys(loansForRepayment)))
            /\ UNCHANGED <<loanRequestsStorage, now, nextUuid>>

\* automateLoanRepayment: update([], Vec(text))
automateLoanRepayment ==
    LET loansForRepayment ==
            {id \in DOMAIN loansStorage : shouldAutomateRepayment(loansStorage[id])}
        throws == \E id \in loansForRepayment :
                      \/ loansStorage[id].duration = 0
                      \/ repaidLoan(loansStorage[id]).amount < 0
    IN IF throws
       THEN /\ reply' = Reply("automateLoanRepayment", Trap)
            /\ UNCHANGED <<loansStorage, loanRequestsStorage, userProfiles, now, nextUuid>>
       ELSE /\ loansStorage' = [id \in DOMAIN loansStorage |->
                                   IF id \in loansForRepayment
                                   THEN repaidLoan(loansStorage[id])
                                   ELSE loansStorage[id]]
            /\ reply' = Reply("automateLoanRepayment", Ok(SortedKeys(loansForRepayment)))
            /\ UNCHANGED <<loanRequestsStorage, userProfiles, now, nextUuid>>

\* mutant: the extended due date counted from the loan's creation
extendedLoanFromCreation(loan, newDuration) ==
    [loan EXCEPT !.duration = newDuration,
                 !.dueDate = loan.creationDate + newDuration]

\* the loan record written by requestLoanExtension
extendedLoan(loan, newDuration) ==
    [loan EXCEPT !.duration = newDuration,
                 !.dueDate = calculateDueDate(newDuration)]

\* mutant: the new duration is stored before it is validated
requestLoanExtensionEarlyWrite(loanId, newDuration) ==
    IF loanId \notin DOMAIN loansStorage
    THEN /\ reply' = Reply("requestLoanExtension", Err("NotFound"))
         /\ UNCHANGED <<loansStorage, loanRequestsStorage, userProfiles, now, nextUuid>>
    ELSE LET loan == extendedLoan(loansStorage[loanId], newDuration)
         IN /\ loansStorage' = Insert(loansStorage, loan.id, loan)
            /\ reply' = IF loansStorage[loanId].status # "Active"
                           \/ newDuration <= loansStorage[loanId].duration
                        THEN Reply("requestLoanExtension", Err("InvalidPayload"))
                        ELSE Reply("requestLoanExtension", Ok(loan))
            /\ UNCHANGED <<loanRequestsStorage, userProfiles, now, nextUuid>>

\* requestLoanExtension: update([text, nat64], Result(Loan, Message))
requestLoanExtension(loanId, newDuration) ==
    IF loanId \notin DOMAIN loansStorage
    THEN /\ reply' = Reply("requestLoanExtension", Err("NotFound"))
         /\ UNCHANGED <<loansStorage, loanRequestsStorage, userProfiles, now, nextUuid>>
    ELSE IF loansStorage[loanId].status # "Active"
    THEN /\ reply' = Reply("requestLoanExtension", Err("InvalidPayload"))
         /\ UNCHANGED <<loansStorage, loanRequestsStorage, userProfiles, now, nextUuid>>
    ELSE IF newDuration <= loansStorage[loanId].duration
    THEN /\ reply' = Reply("requestLoanExtension", Err("InvalidPayload"))
         /\ UNCHANGED <<loansStorage, loanRequestsStorage, userProfiles, now, nextUuid>>
    ELSE LET loan == extendedLoan(loansStorage[loanId], newDuration)
         IN /\ loansStorage' = Insert(loansStorage, loan.id, loan)
            /\ reply' = Reply("requestLoanExtension", Ok(loan))
            /\ UNCHANGED <<loanRequestsStorage, userProfiles, now, nextUuid>>

LoanCalls ==
    \/ \E caller \in Principals, request \in LoanRequest : createLoanRequest(caller, request)
    \/ \E caller \in Principals, loanRequestId \in Texts :
           acceptLoanRequest(caller, loanRequestId)
    \/ \E loanId \in Uuids, repaymentAmount \in Amounts :
           makeRepayment(loanId, repaymentAmount)
    \/ checkForDefault
    \/ \E loanId \in Uuids, newTerms \in LoanRequest : modifyLoanTerms(loanId, newTerms)
    \/ accumulateInterest
    \/ automateLoanRepayment
    \/ \E loanId \in Uuids, newDuration \in Durations :
           requestLoanExtension(loanId, newDuration)

UserCalls ==
    \/ \E caller \in Principals, name \in Names : registerUser(caller, name)
    \/ \E caller \in Principals, amount \in Amounts : saveFunds(caller, amount)

Queries ==
    \/ \E loanId \in Uuids : getLoanStatus(loanId)
    \/ \E userPrincipal \in Principals : getUserLoanHistory(userPrincipal)

Next == Tick \/ LoanCalls \/ UserCalls \/ Queries

Spec == Init /\ [][Next]_vars

\* The loan ledger alone: no loan method reads or writes userProfiles, and the
\* queries write nothing.
NextLoans == Tick \/ LoanCalls

SpecLoans == Init /\ [][NextLoans]_vars

\* The whole ledger, loan methods and user methods together, with the uuid
\* supply cut to MaxLedgerIds and the clock kept within 0 .. MaxTime.
TickLedger ==
    /\ \E t \in 0 .. MaxTime : t > now /\ now' = t
    /\ UNCHANGED <<loansStorage, loanRequestsStorage, userProfiles, nextUuid, reply>>

LedgerLoanCalls ==
    \/ \E caller \in Principals, request \in LoanRequest :
           createLoanRequest(caller, request) /\ nextUuid' <= MaxLedgerIds + 1
    \/ \E caller \in Principals, loanRequestId \in Texts :
           acceptLoanRequest(caller, loanRequestId) /\ nextUuid' <= MaxLedgerIds + 1
    \/ \E loanId \in Uuids, repaymentAmount \in Amounts :
           makeRepayment(loanId, repaymentAmount)
    \/ checkForDefault
    \/ \E loanId \in Uuids, newTerms \in LoanRequest : modifyLoanTerms(loanId, newTerms)
    \/ accumulateInterest
    \/ automateLoanRepayment
    \/ \E loanId \in Uuids, newDuration \in Durations :
           requestLoanExtension(loanId, newDuration)

NextLedger == TickLedger \/ UserCalls \/ LedgerLoanCalls

SpecLedger == Init /\ [][NextLedger]_vars

\* The interest computation alone: the state after one principal created a
\* request at time 0 and accepted it at once, followed by clock ticks and
\* accumulateInterest calls.
InitInterest ==
    \E caller \in Principals, request \in InterestRequest :
       /\ now = 0
       /\ loanRequestsStorage = Insert(EmptyMap, caller, request)
       /\ loansStorage = Insert(EmptyMap, 2, acceptedLoan(2, request, caller))
       /\ userProfiles = EmptyMap
       /\ nextUuid = 3
       /\ reply = Reply("acceptLoanRequest", Ok(acceptedLoan(2, request, caller)))

TickInterest ==
    /\ \E t \in InterestTimes : t > now /\ now' = t
    /\ UNCHANGED <<loansStorage, loanRequestsStorage, userProfiles, nextUuid, reply>>

NextInterest == TickInterest \/ accumulateInterest

SpecInterest == InitInterest /\ [][NextInterest]_vars

\* The user profiles alone: registerUser and saveFunds read and write only
\* userProfiles.
NextUsers == UserCalls

SpecUsers == Init /\ [][NextUsers]_vars

\* ---- shorthands for the claims -------------------------------------------
Stores == <<loansStorage, loanRequestsStorage, userProfiles>>

InVec(x, vec) == \E i \in DOMAIN vec : vec[i] = x

\* the terms the data model allows: a positive amount and a positive duration
ValidTerms(loan) == loan.amount > 0 /\ loan.duration > 0

\* C1: after createLoanRequest returned request id r, acceptLoanRequest(r)
\* finds that request and creates a loan carrying its amount, interestRate and
\* duration; acceptLoanRequest with an id under which no request is stored
\* returns NotFound and creates no loan.
C1_AcceptFindsCreatedRequest ==
    [][\A caller \in Principals, r \in Texts :
          acceptLoanRequest(caller, r) =>
             /\ reply = Reply("createLoanRequest", Ok(r)) =>
                   /\ reply'.ret.tag = "Ok"
                   /\ \E owner \in DOMAIN loanRequestsStorage :
                         /\ reply'.ret.val.amount = loanRequestsStorage[owner].amount
                         /\ reply'.ret.val.interestRate = loanRequestsStorage[owner].interestRate
                         /\ reply'.ret.val.duration = loanRequestsStorage[owner].duration
                   /\ DOMAIN loansStorage' # DOMAIN loansStorage
             /\ (r \notin DOMAIN loanRequestsStorage
                 /\ reply # Reply("createLoanRequest", Ok(r))) =>
                   /\ reply'.ret = Err("NotFound")
                   /\ loansStorage' = loansStorage]_vars

\* C2: every successful acceptLoanRequest stores and returns a loan with status
\* Active, lender absent, creationDate equal to the current time and
\* dueDate = creationDate + duration, with the amount, interestRate and
\* duration of the accepted request.
C2_AcceptedLoanShape ==
    [][\A caller \in Principals, r \in Texts :
          (acceptLoanRequest(caller, r) /\ reply'.op = "acceptLoanRequest"
              /\ reply'.ret.tag = "Ok") =>
             LET loan == reply'.ret.val
                 request == loanRequestsStorage[r]
             IN /\ r \in DOMAIN loanRequestsStorage
                /\ loan.id \notin DOMAIN loansStorage
                /\ loan.id \in DOMAIN loansStorage'
                /\ loansStorage'[loan.id] = loan
                /\ loan.status = "Active"
                /\ loan.lender = "None"
                /\ loan.creationDate = now
                /\ loan.dueDate = loan.creationDate + loan.duration
                /\ loan.amount = request.amount
                /\ loan.interestRate = request.interestRate
                /\ loan.duration = request.duration]_vars

\* C2 witness: a request accepted at a time after 0; the returned loan is stored.
C2_Witness ==
    /\ reply.op = "acceptLoanRequest"
    /\ reply.ret.tag = "Ok"
    /\ now > 0
    /\ reply.ret.val.creationDate = now
    /\ reply.ret.val.duration > 0
    /\ reply.ret.val.id \in DOMAIN loansStorage
    /\ loansStorage[reply.ret.val.id] = reply.ret.val

\* C3: checkForDefault calls made while now <= dueDate leave a loan's status
\* unchanged; a call made when now > dueDate on an Active loan that is not
\* fully repaid sets its status to Defaulted and returns its id; a Defaulted
\* loan stays Defaulted under later calls.
C3_DefaultSweep ==
    [][(checkForDefault /\ reply'.op = "checkForDefault") =>
          \A id \in DOMAIN loansStorage :
             LET loan == loansStorage[id]
             IN /\ id \in DOMAIN loansStorage'
                /\ now <= loan.dueDate => loansStorage'[id].status = loan.status
                /\ (now > loan.dueDate /\ loan.status = "Active"
                    /\ ValidTerms(loan) /\ ~loanIsFullyRepaid(loan)) =>
                      /\ loansStorage'[id].status = "Defaulted"
                      /\ InVec(id, reply'.ret.val)
                /\ loan.status = "Defaulted" => loansStorage'[id].status = "Defaulted"]_vars

\* C4: a successful makeRepayment with a positive amount records the
\* repayment (the cumulative amount repaid strictly increases), and a
\* repayment covering principal + interest makes the loan Completed.
C4_RepaymentCompletes ==
    [][\A loanId \in Uuids, repaymentAmount \in Amounts :
          (makeRepayment(loanId, repaymentAmount) /\ reply'.op = "makeRepayment"
              /\ reply'.ret.tag = "Ok" /\ repaymentAmount > 0
              /\ loansStorage[loanId].status = "Active"
              /\ ValidTerms(loansStorage[loanId])) =>
             /\ Stores' # Stores
             /\ repaymentAmount >= loansStorage[loanId].amount
                                      + calculateAccumulatedInterest(loansStorage[loanId])
                   => loansStorage'[loanId].status = "Completed"]_vars

\* C5: makeRepayment returns NotFound when the loan id is not stored and
\* InvalidPayload when the amount is not greater than 0 or the loan is not
\* Active; in each case the stores are unchanged.
C5_RepaymentErrors ==
    [][\A loanId \in Uuids, repaymentAmount \in Amounts :
          (makeRepayment(loanId, repaymentAmount) /\ reply'.op = "makeRepayment") =>
             /\ loanId \notin DOMAIN loansStorage =>
                   (reply'.ret = Err("NotFound") /\ Stores' = Stores)
             /\ (loanId \in DOMAIN loansStorage /\ ValidTerms(loansStorage[loanId])
                 /\ (repaymentAmount <= 0 \/ loansStorage[loanId].status # "Active")) =>
                   (reply'.ret = Err("InvalidPayload") /\ Stores' = Stores)]_vars

\* C7: for an Active loan, requestLoanExtension(loanId, newDuration) returns
\* InvalidPayload and changes nothing when newDuration <= the current duration;
\* otherwise it sets duration to newDuration and dueDate to now + newDuration.
C7_Extension ==
    [][\A loanId \in Uuids, newDuration \in Durations :
          (requestLoanExtension(loanId, newDuration)
              /\ reply'.op = "requestLoanExtension"
              /\ loanId \in DOMAIN loansStorage
              /\ loansStorage[loanId].status = "Active") =>
             IF newDuration <= loansStorage[loanId].duration
             THEN reply'.ret = Err("InvalidPayload") /\ Stores' = Stores
             ELSE /\ reply'.ret.tag = "Ok"
                  /\ loansStorage'[loanId] = reply'.ret.val
                  /\ loansStorage'[loanId].duration = newDuration
                  /\ loansStorage'[loanId].dueDate = now + newDuration]_vars

\* C7 witness: an extension granted after the loan's creation time.
C7_Witness ==
    /\ reply.op = "requestLoanExtension"
    /\ reply.ret.tag = "Ok"
    /\ reply.ret.val.creationDate < now
    /\ reply.ret.val.dueDate = now + reply.ret.val.duration
    /\ loansStorage[reply.ret.val.id] = reply.ret.val

\* C8 (as stated): in every reachable state every stored loan satisfies
\* dueDate = creationDate + duration.
C8_DueDateFromCreation ==
    \A id \in DOMAIN loansStorage :
       ValidTerms(loansStorage[id]) =>
          loansStorage[id].dueDate
             = loansStorage[id].creationDate + loansStorage[id].duration

\* C8 (amended): a loan is created with dueDate = creationDate + duration and
\* creationDate = now; a successful modifyLoanTerms or requestLoanExtension
\* sets dueDate = now + duration for the time now of that call and keeps
\* creationDate; no other step changes dueDate, duration or creationDate.
C8_DueDateFromLastChange ==
    [][\A id \in DOMAIN loansStorage' :
          LET new == loansStorage'[id]
          IN IF id \notin DOMAIN loansStorage
             THEN /\ new.creationDate = now
                  /\ new.dueDate = new.creationDate + new.duration
             ELSE LET old == loansStorage[id]
                  IN /\ new.creationDate = old.creationDate
                     /\ \/ new.dueDate = old.dueDate /\ new.duration = old.duration
                        \/ /\ reply'.op \in {"modifyLoanTerms", "requestLoanExtension"}
                           /\ reply'.ret.tag = "Ok"
                           /\ reply'.ret.val.id = id
                           /\ new.dueDate = now + new.duration]_vars

\* C8 witness: a stored loan whose terms were changed after its creation time,
\* so that dueDate is later than creationDate + duration.
C8_Witness ==
    /\ reply.op \in {"modifyLoanTerms", "requestLoanExtension"}
    /\ reply.ret.tag = "Ok"
    /\ loansStorage[reply.ret.val.id].dueDate = now + loansStorage[reply.ret.val.id].duration
    /\ loansStorage[reply.ret.val.id].dueDate >
          loansStorage[reply.ret.val.id].creationDate + loansStorage[reply.ret.val.id].duration

\* C10: createLoanRequest rejects requests with amount <= 0 or duration <= 0
\* with InvalidPayload, acceptLoanRequest creates no loan from such terms, and
\* every stored loan request and every stored loan has amount > 0 and
\* duration > 0.
PositiveTerms ==
    /\ \A p \in DOMAIN loanRequestsStorage :
          loanRequestsStorage[p].amount > 0 /\ loanRequestsStorage[p].duration > 0
    /\ \A id \in DOMAIN loansStorage :
          loansStorage[id].amount > 0 /\ loansStorage[id].duration > 0

C10_PositiveTerms ==
    [][/\ \A caller \in Principals, request \in LoanRequest :
             (createLoanRequest(caller, request)
                 /\ (request.amount <= 0 \/ request.duration <= 0)) =>
                reply'.ret = Err("InvalidPayload")
       /\ \A caller \in Principals, r \in Texts :
             (acceptLoanRequest(caller, r) /\ r \in DOMAIN loanRequestsStorage
                 /\ (loanRequestsStorage[r].amount <= 0
                     \/ loanRequestsStorage[r].duration <= 0)) =>
                reply'.ret = Err("InvalidPayload")
       /\ PositiveTerms']_vars

\* C11: whenever a mutating operation returns an error result, the loan store,
\* the loan-request store and the user-profile store are what they were before
\* the call.
MutatingOps ==
    {"registerUser", "saveFunds", "createLoanRequest", "acceptLoanRequest",
     "makeRepayment", "modifyLoanTerms", "requestLoanExtension"}

C11_ErrorsLeaveStores ==
    [][(now' = now /\ reply'.op \in MutatingOps /\ reply'.ret.tag = "Err") =>
          Stores' = Stores]_vars

\* C11 witness: an extension refused with InvalidPayload while all three
\* stores hold entries.
C11_Witness ==
    /\ reply = Reply("requestLoanExtension", Err("InvalidPayload"))
    /\ DOMAIN loansStorage # {}
    /\ DOMAIN loanRequestsStorage # {}
    /\ DOMAIN userProfiles # {}

\* C12: registerUser sets the caller's balance to 0 and each saveFunds(amount)
\* by a registered caller adds amount to it, so registerUser, saveFunds(amount),
\* saveFunds(amount2) yields amount and then amount + amount2; no other
\* identity's profile changes.
C12_BalanceAddsUp ==
    [][/\ \A caller \in Principals, name \in Names :
             registerUser(caller, name) =>
                /\ userProfiles'[caller].balance = 0
                /\ \A other \in DOMAIN userProfiles' \ {caller} :
                      other \in DOMAIN userProfiles
                      /\ userProfiles'[other] = userProfiles[other]
       /\ \A caller \in Principals, amount \in Amounts :
             (saveFunds(caller, amount) /\ caller \in DOMAIN userProfiles) =>
                /\ reply'.ret.tag = "Ok"
                /\ DOMAIN userProfiles' = DOMAIN userProfiles
                /\ userProfiles'[caller].balance = userProfiles[caller].balance + amount
                /\ \A other \in DOMAIN userProfiles \ {caller} :
                      userProfiles'[other] = userProfiles[other]]_vars

\* C12 witness: two saveFunds calls with positive amounts have raised a balance
\* from 0 to more than one amount, while another identity holds a profile.
C12_Witness ==
    /\ reply.op = "saveFunds"
    /\ reply.ret.tag = "Ok"
    /\ \E caller \in DOMAIN userProfiles :
          /\ userProfiles[caller].balance > MaxAmount
          /\ DOMAIN userProfiles # {caller}

\* C13: saveFunds returns NotFound when the caller has no profile and
\* InvalidPayload when amount <= 0; in both cases no balance changes.
C13_SaveFundsErrors ==
    [][\A caller \in Principals, amount \in Amounts :
          (saveFunds(caller, amount) /\ reply'.op = "saveFunds") =>
             /\ caller \notin DOMAIN userProfiles =>
                   (reply'.ret = Err("NotFound") /\ userProfiles' = userProfiles)
             /\ (caller \in DOMAIN userProfiles /\ userProfiles[caller].name # ""
                 /\ amount <= 0) =>
                   (reply'.ret = Err("InvalidPayload") /\ userProfiles' = userProfiles)]_vars

\* C14: registerUser with an empty name returns InvalidPayload and creates no
\* profile; with a non-empty name it stores a profile for the caller with
\* balance 0.
C14_RegisterValidatesName ==
    [][\A caller \in Principals, name \in Names :
          registerUser(caller, name) =>
             IF name = ""
             THEN reply'.ret = Err("InvalidPayload") /\ userProfiles' = userProfiles
             ELSE /\ reply'.ret.tag = "Ok"
                  /\ userProfiles'[caller].name = name
                  /\ userProfiles'[caller].balance = 0]_vars

\* C20: registerUser by an identity that already has a profile overwrites it:
\* afterwards the profile has the new name and balance 0, whatever balance had
\* been saved before.
C20_ReRegisterOverwrites ==
    [][\A caller \in Principals, name \in Names :
          (registerUser(caller, name) /\ caller \in DOMAIN userProfiles) =>
             /\ reply'.ret.tag = "Ok"
             /\ userProfiles'[caller].name = name
             /\ userProfiles'[caller].balance = 0
             /\ userProfiles'[caller].principal = caller]_vars

\* C20 witness: a registration that replaced a profile holding a positive
\* balance under another name; the stored profile now has balance 0.
C20_Witness ==
    /\ reply.op = "registerUser"
    /\ reply.previous.tag = "Some"
    /\ reply.previous.val.balance > 0
    /\ userProfiles[reply.previous.val.principal].name # reply.previous.val.name
    /\ userProfiles[reply.previous.val.principal].balance = 0

\* floor(amount * interestRate * elapsed / (RateBasis * SecondsPerYear)), one
\* floor of the whole quotient.  With P = amount * interestRate and
\* elapsed = q * SecondsPerYear + s (0 <= s < SecondsPerYear) the quotient is
\* (P*q + P*s/SecondsPerYear) / RateBasis, and its floor is
\* floor((P*q + floor(P*s / SecondsPerYear)) / RateBasis); this form keeps every
\* intermediate value small.
FloorInterest(amount, interestRate, elapsed) ==
    LET P == amount * interestRate
        q == elapsed \div SecondsPerYear
        s == elapsed % SecondsPerYear
    IN (P * q + ((P * s) \div SecondsPerYear)) \div RateBasis

\* C15: the interest computed for a loan at time now equals
\* floor(amount * interestRate * (now - creationDate) / (100 * 365*24*60*60)).
C15_InterestIsSingleFloor ==
    \A id \in DOMAIN loansStorage :
       ValidTerms(loansStorage[id]) =>
          calculateAccumulatedInterest(loansStorage[id])
             = FloorInterest(loansStorage[id].amount, loansStorage[id].interestRate,
                          now - loansStorage[id].creationDate)

\* C16: automateLoanRepayment deducts accrued interest + floor(amount / duration)
\* from every due loan, and a due loan whose duration is 0 does not abort the
\* sweep: the call still returns its list and the other due loans are processed.
C16_SweepSurvivesZeroDuration ==
    [][(automateLoanRepayment /\ reply'.op = "automateLoanRepayment"
           /\ \A id \in DOMAIN loansStorage :
                 (shouldAutomateRepayment(loansStorage[id])
                  /\ loansStorage[id].duration # 0) =>
                    calculateRepaymentAmount(loansStorage[id]) <= loansStorage[id].amount) =>
          /\ reply'.ret.tag = "Ok"
          /\ \A id \in DOMAIN loansStorage :
                (shouldAutomateRepayment(loansStorage[id])
                 /\ loansStorage[id].duration # 0) =>
                   /\ loansStorage'[id].amount
                         = loansStorage[id].amount
                              - (calculateAccumulatedInterest(loansStorage[id])
                                 + (loansStorage[id].amount \div loansStorage[id].duration))
                   /\ InVec(id, reply'.ret.val)]_vars

\* C17: the loan created by acceptLoanRequest has as borrower the identity that
\* created the request (the key the request is stored under), not the caller
\* of acceptLoanRequest.
C17_BorrowerIsRequestOwner ==
    [][\A caller \in Principals, owner \in Principals :
          (acceptLoanRequest(caller, owner) /\ reply'.op = "acceptLoanRequest"
              /\ reply'.ret.tag = "Ok") =>
             reply'.ret.val.borrower = owner]_vars

\* C18: acceptLoanRequest leaves the loan-request store unchanged, so a stored
\* request can be accepted again; each successful call adds exactly one loan
\* under a fresh id and leaves every previously stored loan unchanged.
C18_AcceptKeepsRequest ==
    [][\A caller \in Principals, r \in Texts :
          (acceptLoanRequest(caller, r) /\ reply'.op = "acceptLoanRequest") =>
             /\ loanRequestsStorage' = loanRequestsStorage
             /\ r \in DOMAIN loanRequestsStorage =>
                   /\ reply'.ret.tag = "Ok"
                   /\ reply'.ret.val.id \notin DOMAIN loansStorage
                   /\ DOMAIN loansStorage' = DOMAIN loansStorage \cup {reply'.ret.val.id}
                   /\ \A id \in DOMAIN loansStorage : loansStorage'[id] = loansStorage[id]
                   /\ r \in DOMAIN loanRequestsStorage']_vars

\* C18 witness: the one stored request has been accepted twice; both loans
\* carry its terms under different ids.
C18_Witness ==
    /\ reply.op = "acceptLoanRequest"
    /\ reply.ret.tag = "Ok"
    /\ Cardinality(DOMAIN loanRequestsStorage) = 1
    /\ Cardinality(DOMAIN loansStorage) = 2
    /\ \A id \in DOMAIN loansStorage, p \in DOMAIN loanRequestsStorage :
          /\ ValidTerms(loansStorage[id])
          /\ loansStorage[id].amount = loanRequestsStorage[p].amount
          /\ loansStorage[id].duration = loanRequestsStorage[p].duration
          /\ loansStorage[id].creationDate = now

\* C19: every accumulateInterest call adds to every Active loan the interest
\* for the whole period from creationDate to now, computed on the loan's
\* current amount, whatever earlier calls have already added; a second call
\* with no time passing adds interest again, on the increased amount.
C19_AccrualNotIdempotent ==
    [][(accumulateInterest /\ reply'.op = "accumulateInterest") =>
          \A id \in DOMAIN loansStorage :
             loansStorage[id].status = "Active" =>
                /\ loansStorage'[id].amount =
                      loansStorage[id].amount
                         + (((loansStorage[id].amount * loansStorage[id].interestRate)
                                \div RateBasis) * (now - loansStorage[id].creationDate))
                              \div SecondsPerYear
                /\ InVec(id, reply'.ret.val)]_vars

\* C19 witness: a loan whose amount is more than twice the largest amount a
\* request or new terms can carry.  One call at most doubles the amount (the
\* elapsed time is at most one year at rate 100), so at least two calls added
\* interest, the later ones on an amount already increased.
C19_Witness ==
    /\ reply.op = "accumulateInterest"
    /\ \E id \in DOMAIN loansStorage :
          /\ loansStorage[id].amount > 2 * MaxAmount
          /\ now - loansStorage[id].creationDate <= SecondsPerYear
          /\ loansStorage[id].interestRate <= RateBasis

\* C21: in every reachable state every stored loan has status Active;
\* makeRepayment and checkForDefault never change any store, and
\* checkForDefault always returns an empty list.
C21_LoansStayActive ==
    /\ [](\A id \in DOMAIN loansStorage : loansStorage[id].status = "Active")
    /\ [][/\ \A loanId \in Uuids, repaymentAmount \in Amounts :
               makeRepayment(loanId, repaymentAmount) => Stores' = Stores
          /\ checkForDefault =>
                (Stores' = Stores /\ reply'.ret = Ok(<<>>))]_vars

\* C21 witness: checkForDefault has just run over an Active loan with valid
\* terms that is past its due date, and returned the empty list.
C21_Witness ==
    /\ reply = Reply("checkForDefault", Ok(<<>>))
    /\ \E id \in DOMAIN loansStorage :
          /\ ValidTerms(loansStorage[id])
          /\ now > loansStorage[id].dueDate
          /\ loansStorage[id].status = "Active"

\* C22: after any sequence of automateLoanRepayment, accumulateInterest and
\* modifyLoanTerms calls every stored loan's amount is >= 0:
\* automateLoanRepayment never deducts more than the loan's current amount.
C22_RepaymentWithinAmount ==
    [][(automateLoanRepayment /\ reply'.op = "automateLoanRepayment") =>
          /\ \A id \in DOMAIN loansStorage :
                (shouldAutomateRepayment(loansStorage[id])
                 /\ ValidTerms(loansStorage[id])) =>
                   calculateRepaymentAmount(loansStorage[id]) <= loansStorage[id].amount
          /\ \A id \in DOMAIN loansStorage' : loansStorage'[id].amount >= 0]_vars

\* C23: a profile's balance changes only through saveFunds (increase by the
\* given amount) and registerUser (set to 0) called by that same identity; no
\* loan operation changes any profile, and no profile is ever removed.
LoanOperations ==
    \/ \E caller \in Principals, loanRequestId \in Texts :
           acceptLoanRequest(caller, loanRequestId)
    \/ \E loanId \in Uuids, repaymentAmount \in Amounts :
           makeRepayment(loanId, repaymentAmount)
    \/ automateLoanRepayment
    \/ accumulateInterest
    \/ checkForDefault
    \/ \E loanId \in Uuids, newTerms \in LoanRequest : modifyLoanTerms(loanId, newTerms)
    \/ \E loanId \in Uuids, newDuration \in Durations :
           requestLoanExtension(loanId, newDuration)

C24_OneRequestPerIdentity ==
    /\ [](/\ DOMAIN loanRequestsStorage \subseteq Principals
          /\ reply.op = "createLoanRequest" => reply.ret.val \in 1 .. (nextUuid - 1))
    /\ [][\A caller \in Principals, request \in LoanRequest :
             createLoanRequest(caller, request) =>
                /\ DOMAIN loanRequestsStorage' = DOMAIN loanRequestsStorage \cup {caller}
                /\ loanRequestsStorage'[caller] = request
                /\ \A other \in DOMAIN loanRequestsStorage \ {caller} :
                      loanRequestsStorage'[other] = loanRequestsStorage[other]
                /\ reply'.ret.tag = "Ok"
                /\ reply'.ret.val \notin 1 .. (nextUuid - 1)]_vars

\* C24 witness: every generated id went to a createLoanRequest call (no loan
\* exists), the last call returned the last id, and the store holds fewer
\* requests than calls were made: some identity's earlier request was replaced.
C24_Witness ==
    /\ reply = Reply("createLoanRequest", Ok(MaxIds))
    /\ loansStorage = EmptyMap
    /\ Cardinality(DOMAIN loanRequestsStorage) = 2
====
